---- MODULE Spec2Model ----
(***************************************************************************)
(* The GATT server event dispatch of bluedroid:                            *)
(*   src/src/gatt_server/gatts_event_handler.rs                            *)
(*   src/src/gatt_server/characteristic.rs                                 *)
(* The entity tree (Profile -> Service -> Characteristic -> Descriptor),   *)
(* the two event handlers and the registration cascade they drive.  The    *)
(* BLE stack is the environment: it holds the requests issued to it and    *)
(* answers each with one confirmation event.                               *)
(***************************************************************************)
EXTENDS Integers, Sequences, FiniteSets, TLC

(* ------------------------------ bounds -------------------------------- *)
NumProfiles == 2
NumServices == 2
NumChars == 1
NumDescs == 2
MaxConn == 1
MaxFaults == 1
MaxStrays == 1
MaxStrayHandle == 2

(* ------------------------------ values -------------------------------- *)
\* Option<T>: None, or Some(x).
None == <<>>
Some(x) == <<x>>
Unwrap(o) == o[1]

ESP_GATT_OK == "ESP_GATT_OK"
ESP_GATT_ERROR == "ESP_GATT_ERROR"
Statuses == {ESP_GATT_OK, ESP_GATT_ERROR}

ResponseByApp == "ResponseByApp"
AutomaticResponse == "AutomaticResponse"

\* How a tree's builder hands out UUIDs below the service level: "unique"
\* gives every entity of a profile its own UUID; "sibling" gives the same
\* UUIDs under every parent, so they are unique among siblings only (the
\* same characteristic type in two services, a 0x2902 descriptor under
\* every characteristic).
UuidSchemes == {"unique", "sibling"}

ServiceUuid(s) == s
CharUuid(scheme, s, c) ==
    IF scheme = "unique" THEN (s - 1) * NumChars + c ELSE c
DescrUuid(scheme, s, c, d) ==
    IF scheme = "unique" THEN ((s - 1) * NumChars + (c - 1)) * NumDescs + d ELSE d

(* --------------------------- construction ----------------------------- *)
NewDescriptor(uuid) ==
    [uuid |-> uuid, attribute_handle |-> None]

NewCharacteristic(uuid, descriptors) ==
    [uuid |-> uuid,
     value |-> <<>>,
     descriptors |-> descriptors,
     attribute_handle |-> None,
     service_handle |-> None,
     control |-> ResponseByApp]

NewService(uuid, characteristics) ==
    [uuid |-> uuid, handle |-> None, characteristics |-> characteristics]

NewProfile(identifier, services) ==
    [identifier |-> identifier, interface |-> None, services |-> services]

BuildProfile(identifier, cs, ds) ==
    NewProfile(identifier,
        [s \in 1..NumServices |->
            NewService(ServiceUuid(s),
                [c \in 1..NumChars |->
                    NewCharacteristic(CharUuid(cs, s, c),
                        [d \in 1..NumDescs |->
                            NewDescriptor(DescrUuid(ds, s, c, d))])])])

(* ------------------------------ helpers ------------------------------- *)
RECURSIVE Concat(_)
Concat(seqs) ==
    IF seqs = <<>> THEN <<>> ELSE Head(seqs) \o Concat(Tail(seqs))

\* Iterator::find: the index of the first element satisfying Test, 0 if none.
FindFirst(seq, Test(_)) ==
    LET hits == {i \in 1..Len(seq) : Test(seq[i])}
    IN IF hits = {} THEN 0 ELSE CHOOSE i \in hits : \A j \in hits : i <= j

\* services.iter().flat_map(|s| s.characteristics.iter()): <<s, c>> in order.
FlatChars(profile) ==
    Concat([s \in 1..Len(profile.services) |->
              [c \in 1..Len(profile.services[s].characteristics) |-> <<s, c>>]])

\* ... .flat_map(|c| c.descriptors.iter()): <<s, c, d>> in order.
FlatDescrs(profile) ==
    LET chars == FlatChars(profile)
    IN Concat([i \in 1..Len(chars) |->
                 [d \in 1..Len(profile.services[chars[i][1]]
                                 .characteristics[chars[i][2]].descriptors) |->
                    <<chars[i][1], chars[i][2], d>>]])

\* v bound to a name for Body: the let-binding of the code, evaluated once.
With(v, Body(_)) == CHOOSE x \in {Body(y) : y \in {v}} : TRUE

\* What a handler returns: the entity as it leaves it, the stack calls it
\* issued in order, and whether it aborted the process (a panic).
Outcome(entity, calls, panic) ==
    [entity |-> entity, calls |-> calls, panic |-> panic]

\* for_each over a collection, each step an Outcome; a panic stops the walk,
\* leaving the later elements untouched.
ForEach(seq, Step(_, _)) ==
    With(<<>> \o [i \in 1..Len(seq) |-> Step(seq[i], i)], LAMBDA r :
      With(FindFirst(r, LAMBDA o : o.panic), LAMBDA stop :
        Outcome([i \in 1..Len(seq) |->
                    IF stop = 0 \/ i <= stop THEN r[i].entity ELSE seq[i]],
                Concat([i \in 1..Len(seq) |->
                    IF stop = 0 \/ i <= stop THEN r[i].calls ELSE <<>>]),
                stop # 0)))

(* ----------------------------- stack calls ---------------------------- *)
\* The calls the code issues to the stack.  "who" is not an argument of the
\* call: it records the entity whose registration method issued it, as
\* <<profile, service, characteristic, descriptor>> indices, and the handle
\* field of that entity's parent at the moment of the call.
Caller(path, parent) == [path |-> path, parent |-> parent]

AppRegister(app_id, who) ==
    [op |-> "app_register", app_id |-> app_id, who |-> who]
AddService(gatts_if, uuid, who) ==
    [op |-> "add_service", gatts_if |-> gatts_if, uuid |-> uuid, who |-> who]
StartService(handle, who) ==
    [op |-> "start_service", handle |-> handle, who |-> who]
AddChar(service_handle, uuid, attr_len, who) ==
    [op |-> "add_char", handle |-> service_handle, uuid |-> uuid,
     attr_len |-> attr_len, who |-> who]
AddCharDescr(handle, uuid, who) ==
    [op |-> "add_char_descr", handle |-> handle, uuid |-> uuid, who |-> who]
StartAdvertising == [op |-> "start_advertising", params |-> "advertisement_parameters"]
SetDeviceName == [op |-> "set_device_name"]
ConfigAdvData(set_scan_rsp) ==
    [op |-> "config_adv_data", data |-> "advertisement_data",
     set_scan_rsp |-> set_scan_rsp]
SendResponse(gatts_if, conn_id, trans_id, status, rsp) ==
    [op |-> "send_response", gatts_if |-> gatts_if, conn_id |-> conn_id,
     trans_id |-> trans_id, status |-> status, rsp |-> rsp]

(* ------------------- registration methods of the tree ----------------- *)
\* Descriptor::register_self
DescriptorRegisterSelf(descriptor, handle, who) ==
    Outcome(descriptor, <<AddCharDescr(handle, descriptor.uuid, who)>>, FALSE)

\* CharacteristicRegisterSelf without the assignment of service_handle.
CharacteristicRegisterSelf_NotStored(ch, service_handle, who) ==
    IF ch.control = AutomaticResponse /\ Len(ch.value) = 0
    THEN Outcome(ch, <<>>, TRUE)
    ELSE Outcome(ch, <<AddChar(service_handle, ch.uuid, Len(ch.value), who)>>, FALSE)

\* Characteristic::register_self
CharacteristicRegisterSelf(ch, service_handle, who) ==
    With([ch EXCEPT !.service_handle = Some(service_handle)], LAMBDA ch1 :
      IF ch1.control = AutomaticResponse /\ Len(ch1.value) = 0
      THEN Outcome(ch1, <<>>, TRUE)
      ELSE Outcome(ch1,
               <<AddChar(service_handle, ch1.uuid, Len(ch1.value), who)>>, FALSE))

\* RegisterDescriptors handing each descriptor the characteristic's own
\* attribute_handle instead of its service_handle.
RegisterDescriptors_AttributeHandle(ch, who) ==
    With(ForEach(ch.descriptors,
             LAMBDA descriptor, d :
                IF ch.attribute_handle = None
                THEN Outcome(descriptor, <<>>, TRUE)
                ELSE DescriptorRegisterSelf(descriptor,
                         Unwrap(ch.attribute_handle),
                         Caller(who \o <<d>>, ch.attribute_handle))),
         LAMBDA r : Outcome([ch EXCEPT !.descriptors = r.entity], r.calls, r.panic))

\* Characteristic::register_descriptors
RegisterDescriptors(ch, who) ==
    With(ForEach(ch.descriptors,
             LAMBDA descriptor, d :
                IF ch.service_handle = None
                THEN Outcome(descriptor, <<>>, TRUE)
                ELSE DescriptorRegisterSelf(descriptor,
                         Unwrap(ch.service_handle),
                         Caller(who \o <<d>>, ch.attribute_handle))),
         LAMBDA r : Outcome([ch EXCEPT !.descriptors = r.entity], r.calls, r.panic))

\* Service::register_characteristics
RegisterCharacteristics(service, who) ==
    With(ForEach(service.characteristics,
             LAMBDA ch, c :
                IF service.handle = None
                THEN Outcome(ch, <<>>, TRUE)
                ELSE CharacteristicRegisterSelf(ch,
                         Unwrap(service.handle),
                         Caller(who \o <<c>>, service.handle))),
         LAMBDA r :
            Outcome([service EXCEPT !.characteristics = r.entity], r.calls, r.panic))

\* Service::register_self
ServiceRegisterSelf(service, interface, who) ==
    Outcome(service, <<AddService(interface, service.uuid, who)>>, FALSE)

\* Profile::register_services
RegisterServices(profile, who) ==
    With(ForEach(profile.services,
             LAMBDA service, s :
                IF profile.interface = None
                THEN Outcome(service, <<>>, TRUE)
                ELSE ServiceRegisterSelf(service,
                         Unwrap(profile.interface),
                         Caller(who \o <<s>>, profile.interface))),
         LAMBDA r : Outcome([profile EXCEPT !.services = r.entity], r.calls, r.panic))

(* ------------------------------- events ------------------------------- *)
ConnectEvt(gatts_if) == [kind |-> "CONNECT_EVT", gatts_if |-> gatts_if]
DisconnectEvt(gatts_if) == [kind |-> "DISCONNECT_EVT", gatts_if |-> gatts_if]
MtuEvt(gatts_if) == [kind |-> "MTU_EVT", gatts_if |-> gatts_if]
RegEvt(gatts_if, app_id, status) ==
    [kind |-> "REG_EVT", gatts_if |-> gatts_if, app_id |-> app_id, status |-> status]
CreateEvt(gatts_if, uuid, service_handle, status) ==
    [kind |-> "CREATE_EVT", gatts_if |-> gatts_if, uuid |-> uuid,
     service_handle |-> service_handle, status |-> status]
StartEvt(gatts_if, service_handle, status) ==
    [kind |-> "START_EVT", gatts_if |-> gatts_if,
     service_handle |-> service_handle, status |-> status]
AddCharEvt(gatts_if, uuid, attr_handle, status) ==
    [kind |-> "ADD_CHAR_EVT", gatts_if |-> gatts_if, uuid |-> uuid,
     attr_handle |-> attr_handle, status |-> status]
AddCharDescrEvt(gatts_if, uuid, attr_handle, status) ==
    [kind |-> "ADD_CHAR_DESCR_EVT", gatts_if |-> gatts_if, uuid |-> uuid,
     attr_handle |-> attr_handle, status |-> status]
ReadEvt(gatts_if, handle, conn_id, trans_id) ==
    [kind |-> "READ_EVT", gatts_if |-> gatts_if, handle |-> handle,
     conn_id |-> conn_id, trans_id |-> trans_id]
\* Any event kind neither handler names (a write, a confirm, ...).
OtherEvt(gatts_if) == [kind |-> "OTHER_EVT", gatts_if |-> gatts_if]

(* ---------------- Profile::gatts_event_handler, by event -------------- *)
ProfileOnReg(profile, p, ev) ==
    IF ev.status # ESP_GATT_OK
    THEN Outcome(profile, <<>>, FALSE)
    ELSE RegisterServices(profile, <<p>>)

\* ProfileOnCreate with the lookup miss skipped instead of fatal.
ProfileOnCreate_MissSkipped(profile, p, ev) ==
    With(FindFirst(profile.services, LAMBDA service : service.uuid = ev.uuid),
      LAMBDA s :
        IF s = 0 THEN Outcome(profile, <<>>, FALSE)
        ELSE
          With([profile.services[s] EXCEPT !.handle = Some(ev.service_handle)],
            LAMBDA service :
              IF ev.status # ESP_GATT_OK
              THEN Outcome([profile EXCEPT !.services[s] = service], <<>>, FALSE)
              ELSE
                With(RegisterCharacteristics(service, <<p, s>>), LAMBDA r :
                  Outcome([profile EXCEPT !.services[s] = r.entity],
                      <<StartService(Unwrap(service.handle),
                                     Caller(<<p, s>>, profile.interface))>>
                         \o r.calls,
                      r.panic))))

\* ProfileOnCreate with the last two statements of its success branch
\* swapped: the characteristics are registered before the service is started.
ProfileOnCreate_PopulateFirst(profile, p, ev) ==
    With(FindFirst(profile.services, LAMBDA service : service.uuid = ev.uuid),
      LAMBDA s :
        IF s = 0 THEN Outcome(profile, <<>>, TRUE)
        ELSE
          With([profile.services[s] EXCEPT !.handle = Some(ev.service_handle)],
            LAMBDA service :
              IF ev.status # ESP_GATT_OK
              THEN Outcome([profile EXCEPT !.services[s] = service], <<>>, FALSE)
              ELSE
                With(RegisterCharacteristics(service, <<p, s>>), LAMBDA r :
                  Outcome([profile EXCEPT !.services[s] = r.entity],
                      r.calls
                         \o <<StartService(Unwrap(service.handle),
                                           Caller(<<p, s>>, profile.interface))>>,
                      r.panic))))

ProfileOnCreate(profile, p, ev) ==
    With(FindFirst(profile.services, LAMBDA service : service.uuid = ev.uuid),
      LAMBDA s :
        IF s = 0 THEN Outcome(profile, <<>>, TRUE)
        ELSE
          With([profile.services[s] EXCEPT !.handle = Some(ev.service_handle)],
            LAMBDA service :
              IF ev.status # ESP_GATT_OK
              THEN Outcome([profile EXCEPT !.services[s] = service], <<>>, FALSE)
              ELSE
                With(RegisterCharacteristics(service, <<p, s>>), LAMBDA r :
                  Outcome([profile EXCEPT !.services[s] = r.entity],
                      <<StartService(Unwrap(service.handle),
                                     Caller(<<p, s>>, profile.interface))>>
                         \o r.calls,
                      r.panic))))

ProfileOnStart(profile, p, ev) ==
    With(FindFirst(profile.services,
             LAMBDA service : service.handle = Some(ev.service_handle)),
      LAMBDA s : Outcome(profile, <<>>, s = 0))

\* ProfileOnAddChar with the two statements of its success branch swapped:
\* the descriptors are registered before attribute_handle is assigned.
ProfileOnAddChar_RegisterFirst(profile, p, ev) ==
    With(FlatChars(profile), LAMBDA chars :
      With(FindFirst(chars,
               LAMBDA sc : profile.services[sc[1]].characteristics[sc[2]].uuid
                              = ev.uuid),
        LAMBDA i :
          IF i = 0 THEN Outcome(profile, <<>>, TRUE)
          ELSE IF ev.status # ESP_GATT_OK THEN Outcome(profile, <<>>, FALSE)
          ELSE
            With(RegisterDescriptors(
                     profile.services[chars[i][1]].characteristics[chars[i][2]],
                     <<p, chars[i][1], chars[i][2]>>),
              LAMBDA r :
                Outcome([profile EXCEPT
                            !.services[chars[i][1]].characteristics[chars[i][2]]
                                = [r.entity EXCEPT
                                     !.attribute_handle = Some(ev.attr_handle)]],
                        r.calls, r.panic))))

\* ProfileOnAddChar without the status check: a failed confirmation is
\* applied like a successful one.
ProfileOnAddChar_IgnoresStatus(profile, p, ev) ==
    With(FlatChars(profile), LAMBDA chars :
      With(FindFirst(chars,
               LAMBDA sc : profile.services[sc[1]].characteristics[sc[2]].uuid
                              = ev.uuid),
        LAMBDA i :
          IF i = 0 THEN Outcome(profile, <<>>, TRUE)
          ELSE
            With([profile.services[chars[i][1]].characteristics[chars[i][2]] EXCEPT
                     !.attribute_handle = Some(ev.attr_handle)],
              LAMBDA ch :
                With(RegisterDescriptors(ch, <<p, chars[i][1], chars[i][2]>>),
                  LAMBDA r :
                    Outcome([profile EXCEPT
                                !.services[chars[i][1]].characteristics[chars[i][2]]
                                    = r.entity],
                            r.calls, r.panic)))))

ProfileOnAddChar(profile, p, ev) ==
    With(FlatChars(profile), LAMBDA chars :
      With(FindFirst(chars,
               LAMBDA sc : profile.services[sc[1]].characteristics[sc[2]].uuid
                              = ev.uuid),
        LAMBDA i :
          IF i = 0 THEN Outcome(profile, <<>>, TRUE)
          ELSE IF ev.status # ESP_GATT_OK THEN Outcome(profile, <<>>, FALSE)
          ELSE
            With([profile.services[chars[i][1]].characteristics[chars[i][2]] EXCEPT
                     !.attribute_handle = Some(ev.attr_handle)],
              LAMBDA ch :
                With(RegisterDescriptors(ch, <<p, chars[i][1], chars[i][2]>>),
                  LAMBDA r :
                    Outcome([profile EXCEPT
                                !.services[chars[i][1]].characteristics[chars[i][2]]
                                    = r.entity],
                            r.calls, r.panic)))))

ProfileOnAddCharDescr(profile, p, ev) ==
    With(FlatDescrs(profile), LAMBDA descrs :
      With(FindFirst(descrs,
               LAMBDA scd : profile.services[scd[1]].characteristics[scd[2]]
                               .descriptors[scd[3]].uuid = ev.uuid),
        LAMBDA i :
          IF i = 0 THEN Outcome(profile, <<>>, TRUE)
          ELSE IF ev.status # ESP_GATT_OK THEN Outcome(profile, <<>>, FALSE)
          ELSE Outcome([profile EXCEPT
                           !.services[descrs[i][1]].characteristics[descrs[i][2]]
                            .descriptors[descrs[i][3]].attribute_handle
                               = Some(ev.attr_handle)],
                       <<>>, FALSE)))

\* The esp_gatt_rsp_t the read branch builds: value is the array [0; 600].
ReadResponse(ch, ev) ==
    [auth_req |-> 0, handle |-> ev.handle, len |-> 1, offset |-> 1,
     value |-> [fill |-> 0, size |-> 600]]

\* ProfileOnRead with the connection and transaction ids swapped in the call.
ProfileOnRead_SwappedIds(profile, p, ev) ==
    With(FlatChars(profile), LAMBDA chars :
      Outcome(profile,
          Concat([i \in 1..Len(chars) |->
              With(profile.services[chars[i][1]].characteristics[chars[i][2]],
                LAMBDA ch :
                  IF ch.attribute_handle = Some(ev.handle)
                  THEN <<SendResponse(ev.gatts_if, ev.trans_id, ev.conn_id,
                             ESP_GATT_OK, ReadResponse(ch, ev))>>
                  ELSE <<>>)]),
          FALSE))

\* ProfileOnRead answering a read of a descriptor like a read of a
\* characteristic.
ProfileOnRead_DescriptorsAnswered(profile, p, ev) ==
    With(FlatDescrs(profile), LAMBDA descrs :
      Outcome(profile,
          Concat([i \in 1..Len(descrs) |->
              With(profile.services[descrs[i][1]].characteristics[descrs[i][2]],
                LAMBDA ch :
                  IF \/ ch.attribute_handle = Some(ev.handle)
                     \/ ch.descriptors[descrs[i][3]].attribute_handle
                           = Some(ev.handle)
                  THEN <<SendResponse(ev.gatts_if, ev.conn_id, ev.trans_id,
                             ESP_GATT_OK, ReadResponse(ch, ev))>>
                  ELSE <<>>)]),
          FALSE))

ProfileOnRead(profile, p, ev) ==
    With(FlatChars(profile), LAMBDA chars :
      Outcome(profile,
          Concat([i \in 1..Len(chars) |->
              With(profile.services[chars[i][1]].characteristics[chars[i][2]],
                LAMBDA ch :
                  IF ch.attribute_handle = Some(ev.handle)
                  THEN <<SendResponse(ev.gatts_if, ev.conn_id, ev.trans_id,
                             ESP_GATT_OK, ReadResponse(ch, ev))>>
                  ELSE <<>>)]),
          FALSE))

ProfileHandler(profile, p, ev) ==
    CASE ev.kind = "REG_EVT" -> ProfileOnReg(profile, p, ev)
      [] ev.kind = "CREATE_EVT" -> ProfileOnCreate(profile, p, ev)
      [] ev.kind = "START_EVT" -> ProfileOnStart(profile, p, ev)
      [] ev.kind = "ADD_CHAR_EVT" -> ProfileOnAddChar(profile, p, ev)
      [] ev.kind = "ADD_CHAR_DESCR_EVT" -> ProfileOnAddCharDescr(profile, p, ev)
      [] ev.kind = "READ_EVT" -> ProfileOnRead(profile, p, ev)
      [] OTHER -> Outcome(profile, <<>>, FALSE)

(* ------------------- GattServer::gatts_event_handler ------------------ *)
\* What the server's own match leaves: the profiles and name_set, the calls
\* issued, whether it aborted, and whether it returned before the
\* per-profile dispatch.
Intercepted(ps, name_set, calls, panic, returned) ==
    [profiles |-> ps, name_set |-> name_set, calls |-> calls, panic |-> panic,
     returned |-> returned]

\* The device name and the two advertising payloads, in the order issued.
NameConfiguration ==
    <<SetDeviceName, ConfigAdvData(FALSE), ConfigAdvData(TRUE)>>

\* ServerOnReg without the name_set guard: every successful registration
\* configures the device name and the advertising payloads again.
ServerOnReg_Unguarded(ps, name_set, ev) ==
    IF ev.status # ESP_GATT_OK
    THEN Intercepted(ps, name_set, <<>>, FALSE, FALSE)
    ELSE
      With(FindFirst(ps, LAMBDA profile : profile.identifier = ev.app_id),
        LAMBDA p :
          IF p = 0 THEN Intercepted(ps, name_set, <<>>, TRUE, TRUE)
          ELSE Intercepted([ps EXCEPT ![p].interface = Some(ev.gatts_if)],
                   TRUE, NameConfiguration, FALSE, FALSE))

\* ServerOnReg with the name configuration outside the status check: a
\* failed registration configures the device name too.
ServerOnReg_ConfiguresOnFailure(ps, name_set, ev) ==
    IF ev.status # ESP_GATT_OK
    THEN Intercepted(ps, TRUE,
             IF ~name_set THEN NameConfiguration ELSE <<>>, FALSE, FALSE)
    ELSE
      With(FindFirst(ps, LAMBDA profile : profile.identifier = ev.app_id),
        LAMBDA p :
          IF p = 0 THEN Intercepted(ps, name_set, <<>>, TRUE, TRUE)
          ELSE Intercepted([ps EXCEPT ![p].interface = Some(ev.gatts_if)],
                   TRUE,
                   IF ~name_set THEN NameConfiguration ELSE <<>>,
                   FALSE, FALSE))

\* ServerOnReg without the assignment name_set = true.
ServerOnReg_FlagNotSet(ps, name_set, ev) ==
    IF ev.status # ESP_GATT_OK
    THEN Intercepted(ps, name_set, <<>>, FALSE, FALSE)
    ELSE
      With(FindFirst(ps, LAMBDA profile : profile.identifier = ev.app_id),
        LAMBDA p :
          IF p = 0 THEN Intercepted(ps, name_set, <<>>, TRUE, TRUE)
          ELSE Intercepted([ps EXCEPT ![p].interface = Some(ev.gatts_if)],
                   name_set,
                   IF ~name_set THEN NameConfiguration ELSE <<>>,
                   FALSE, FALSE))

\* ServerOnReg without the status check: a failed registration is treated
\* like a successful one.
ServerOnReg_AnyStatus(ps, name_set, ev) ==
    With(FindFirst(ps, LAMBDA profile : profile.identifier = ev.app_id),
      LAMBDA p :
        IF p = 0 THEN Intercepted(ps, name_set, <<>>, TRUE, TRUE)
        ELSE Intercepted([ps EXCEPT ![p].interface = Some(ev.gatts_if)],
                 TRUE,
                 IF ~name_set THEN NameConfiguration ELSE <<>>,
                 FALSE, FALSE))

ServerOnReg(ps, name_set, ev) ==
    IF ev.status # ESP_GATT_OK
    THEN Intercepted(ps, name_set, <<>>, FALSE, FALSE)
    ELSE
      With(FindFirst(ps, LAMBDA profile : profile.identifier = ev.app_id),
        LAMBDA p :
          IF p = 0 THEN Intercepted(ps, name_set, <<>>, TRUE, TRUE)
          ELSE Intercepted([ps EXCEPT ![p].interface = Some(ev.gatts_if)],
                   TRUE,
                   IF ~name_set THEN NameConfiguration ELSE <<>>,
                   FALSE, FALSE))

\* ServerMatch with the return of the disconnect arm missing: the event goes
\* on to the per-profile dispatch.
ServerMatch_DisconnectForwarded(ps, name_set, ev) ==
    CASE ev.kind \in {"CONNECT_EVT", "MTU_EVT"} ->
            Intercepted(ps, name_set, <<>>, FALSE, TRUE)
      [] ev.kind = "DISCONNECT_EVT" ->
            Intercepted(ps, name_set, <<StartAdvertising>>, FALSE, FALSE)
      [] ev.kind = "REG_EVT" -> ServerOnReg(ps, name_set, ev)
      [] OTHER -> Intercepted(ps, name_set, <<>>, FALSE, FALSE)

\* The match on the event that opens the server handler.
ServerMatch(ps, name_set, ev) ==
    CASE ev.kind \in {"CONNECT_EVT", "MTU_EVT"} ->
            Intercepted(ps, name_set, <<>>, FALSE, TRUE)
      [] ev.kind = "DISCONNECT_EVT" ->
            Intercepted(ps, name_set, <<StartAdvertising>>, FALSE, TRUE)
      [] ev.kind = "REG_EVT" -> ServerOnReg(ps, name_set, ev)
      [] OTHER -> Intercepted(ps, name_set, <<>>, FALSE, FALSE)

\* The debug! line of the dispatch loop: the event is handed to profile p.
Handling(p) == [op |-> "handling", profile |-> p]

\* DispatchToProfiles without the interface test: every profile is handed
\* every event.
DispatchToProfiles_Unscoped(ps, ev) ==
    ForEach(ps, LAMBDA profile, p :
                   With(ProfileHandler(profile, p, ev), LAMBDA r :
                     Outcome(r.entity, <<Handling(p)>> \o r.calls, r.panic)))

\* The per-profile dispatch that ends the server handler.
DispatchToProfiles(ps, ev) ==
    ForEach(ps, LAMBDA profile, p :
                   IF profile.interface = Some(ev.gatts_if)
                   THEN With(ProfileHandler(profile, p, ev), LAMBDA r :
                          Outcome(r.entity, <<Handling(p)>> \o r.calls, r.panic))
                   ELSE Outcome(profile, <<>>, FALSE))

\* What the server handler leaves behind: the profiles and name_set, the
\* stack calls issued, the profiles the event was handed to, and whether it
\* aborted.
ServerOutcome(ps, name_set, trace, panic) ==
    [profiles |-> ps, name_set |-> name_set,
     calls |-> SelectSeq(trace, LAMBDA c : c.op # "handling"),
     handled |-> Concat([i \in 1..Len(trace) |->
                           IF trace[i].op = "handling"
                           THEN <<trace[i].profile>> ELSE <<>>]),
     panic |-> panic]

ServerHandler(ps, name_set, ev) ==
    With(ServerMatch(ps, name_set, ev), LAMBDA m :
      IF m.returned
      THEN ServerOutcome(m.profiles, m.name_set, m.calls, m.panic)
      ELSE With(DispatchToProfiles(m.profiles, ev), LAMBDA r :
             ServerOutcome(r.entity, m.name_set, m.calls \o r.calls, r.panic)))

(* ------------------------------- state -------------------------------- *)
VARIABLES
    profiles,     \* GattServer.profiles
    name_set,     \* GattServer.name_set
    panicked,     \* the process aborted in a handler
    lastEvent,    \* the event the handler was last called with
    lastCalls,    \* the stack calls that invocation issued, in order
    lastHandled,  \* the profiles that invocation handed the event to
    issued,       \* per entity, the registration calls issued for it so far
    nameConfigs,  \* how many times the device name was configured
    pending,      \* the stack: requests accepted and not yet confirmed
    nextIf,       \* the stack: the next interface it hands out
    nextHandle,   \* the stack: the next attribute handle it hands out
    refused,      \* the stack: the entities whose request it failed
    faults,       \* the stack: how many more requests it may fail
    strays        \* how many more events may arrive that answer no request

vars == <<profiles, name_set, panicked, lastEvent, lastCalls, lastHandled, issued,
          nameConfigs, pending, nextIf, nextHandle, refused, faults, strays>>

Identifier(p) == p

Paths ==
    {<<p>> : p \in 1..NumProfiles}
    \cup {<<p, s>> : p \in 1..NumProfiles, s \in 1..NumServices}
    \cup {<<p, s, c>> : p \in 1..NumProfiles, s \in 1..NumServices,
                         c \in 1..NumChars}
    \cup {<<p, s, c, d>> : p \in 1..NumProfiles, s \in 1..NumServices,
                            c \in 1..NumChars, d \in 1..NumDescs}

RegistrationOps == {"app_register", "add_service", "add_char", "add_char_descr"}
\* The calls the stack confirms with a GATT server event.
ConfirmedOps == RegistrationOps \cup {"start_service"}

CountCalls(calls, Test(_)) == Cardinality({i \in 1..Len(calls) : Test(calls[i])})

\* GattServer start: every profile is constructed and its application
\* identifier handed to the stack's registration call.
Start(maxFaults, maxStrays) ==
    /\ \E cs \in UuidSchemes, ds \in UuidSchemes :
          profiles = [p \in 1..NumProfiles |-> BuildProfile(Identifier(p), cs, ds)]
    /\ name_set = FALSE
    /\ panicked = FALSE
    /\ lastEvent = [kind |-> "NONE"]
    /\ lastCalls = <<>>
    /\ lastHandled = <<>>
    /\ issued = [w \in Paths |-> IF Len(w) = 1 THEN 1 ELSE 0]
    /\ nameConfigs = 0
    /\ pending = [p \in 1..NumProfiles |->
                    [call |-> AppRegister(Identifier(p), Caller(<<p>>, None)),
                     owner |-> None]]
    /\ nextIf = 1
    /\ nextHandle = 1
    /\ refused = {}
    /\ faults = maxFaults
    /\ strays = maxStrays

\* One invocation of GattServer::gatts_event_handler with ev; rest is what
\* the stack still holds once ev is out.
Deliver(ev, rest) ==
    \E r \in {ServerHandler(profiles, name_set, ev)} :
       /\ profiles' = r.profiles
       /\ name_set' = r.name_set
       /\ panicked' = r.panic
       /\ lastEvent' = ev
       /\ lastCalls' = r.calls
       /\ lastHandled' = r.handled
       /\ issued' = [w \in Paths |->
                       issued[w] + CountCalls(r.calls,
                          LAMBDA c : c.op \in RegistrationOps /\ c.who.path = w)]
       /\ nameConfigs' = nameConfigs
                           + CountCalls(r.calls, LAMBDA c : c.op = "set_device_name")
       /\ pending' = rest \o Concat([i \in 1..Len(r.calls) |->
                                IF r.calls[i].op \in ConfirmedOps
                                THEN <<[call |-> r.calls[i],
                                        owner |-> Some(ev.gatts_if)]>>
                                ELSE <<>>])

Remove(seq, i) == SubSeq(seq, 1, i - 1) \o SubSeq(seq, i + 1, Len(seq))

\* The requests the stack may answer next.
Answerable == IF pending = <<>> THEN {} ELSE {1}

\* The handle a confirmation carries: a fresh one on success, none on failure.
Assigned(status) == IF status = ESP_GATT_OK THEN nextHandle ELSE 0
TakeHandle(status) ==
    nextHandle' = IF status = ESP_GATT_OK THEN nextHandle + 1 ELSE nextHandle

\* The statuses the stack may report now, and the fault a failure uses up.
MayReport == IF faults > 0 THEN Statuses ELSE {ESP_GATT_OK}
Spend(i, status) ==
    /\ faults' = IF status = ESP_GATT_OK THEN faults ELSE faults - 1
    /\ refused' = IF status = ESP_GATT_OK \/ pending[i].call.op = "start_service"
                  THEN refused
                  ELSE refused \cup {pending[i].call.who.path}

(* ---------------- the stack confirms a pending request ---------------- *)
ConfirmReg ==
    \E i \in Answerable, status \in MayReport :
       /\ ~panicked
       /\ pending[i].call.op = "app_register"
       /\ Deliver(RegEvt(nextIf, pending[i].call.app_id, status), Remove(pending, i))
       /\ nextIf' = IF status = ESP_GATT_OK THEN nextIf + 1 ELSE nextIf
       /\ Spend(i, status)
       /\ UNCHANGED <<nextHandle, strays>>

ConfirmCreate ==
    \E i \in Answerable, status \in MayReport :
       /\ ~panicked
       /\ pending[i].call.op = "add_service"
       /\ Deliver(CreateEvt(pending[i].call.gatts_if, pending[i].call.uuid,
                            Assigned(status), status),
                  Remove(pending, i))
       /\ TakeHandle(status)
       /\ Spend(i, status)
       /\ UNCHANGED <<nextIf, strays>>

ConfirmStart ==
    \E i \in Answerable, status \in MayReport :
       /\ ~panicked
       /\ pending[i].call.op = "start_service"
       /\ Deliver(StartEvt(Unwrap(pending[i].owner), pending[i].call.handle, status),
                  Remove(pending, i))
       /\ Spend(i, status)
       /\ UNCHANGED <<nextIf, nextHandle, strays>>

ConfirmAddChar ==
    \E i \in Answerable, status \in MayReport :
       /\ ~panicked
       /\ pending[i].call.op = "add_char"
       /\ Deliver(AddCharEvt(Unwrap(pending[i].owner), pending[i].call.uuid,
                             Assigned(status), status),
                  Remove(pending, i))
       /\ TakeHandle(status)
       /\ Spend(i, status)
       /\ UNCHANGED <<nextIf, strays>>

ConfirmAddCharDescr ==
    \E i \in Answerable, status \in MayReport :
       /\ ~panicked
       /\ pending[i].call.op = "add_char_descr"
       /\ Deliver(AddCharDescrEvt(Unwrap(pending[i].owner), pending[i].call.uuid,
                                  Assigned(status), status),
                  Remove(pending, i))
       /\ TakeHandle(status)
       /\ Spend(i, status)
       /\ UNCHANGED <<nextIf, strays>>

(* ------------- events no request of the server stands behind ---------- *)
Interfaces == 1..NumProfiles
\* A client reads an attribute by handle: one the stack handed out, or the
\* next, which names no attribute yet.
ReadHandles == 1..nextHandle
ConnIds == 1..MaxConn
TransIds == {MaxConn + t : t \in 1..MaxConn}

Connect ==
    \E gatts_if \in Interfaces :
       /\ ~panicked
       /\ Deliver(ConnectEvt(gatts_if), pending)
       /\ UNCHANGED <<nextIf, nextHandle, refused, faults, strays>>

Disconnect ==
    \E gatts_if \in Interfaces :
       /\ ~panicked
       /\ Deliver(DisconnectEvt(gatts_if), pending)
       /\ UNCHANGED <<nextIf, nextHandle, refused, faults, strays>>

Mtu ==
    \E gatts_if \in Interfaces :
       /\ ~panicked
       /\ Deliver(MtuEvt(gatts_if), pending)
       /\ UNCHANGED <<nextIf, nextHandle, refused, faults, strays>>

Read ==
    \E gatts_if \in Interfaces, handle \in ReadHandles,
       conn_id \in ConnIds, trans_id \in TransIds :
       /\ ~panicked
       /\ Deliver(ReadEvt(gatts_if, handle, conn_id, trans_id), pending)
       /\ UNCHANGED <<nextIf, nextHandle, refused, faults, strays>>

Other ==
    \E gatts_if \in Interfaces :
       /\ ~panicked
       /\ Deliver(OtherEvt(gatts_if), pending)
       /\ UNCHANGED <<nextIf, nextHandle, refused, faults, strays>>

(* ------ stray events: confirmations that answer no pending request ---- *)
AppIds == 1..(NumProfiles + 1)
Uuids == 1..(NumServices * NumChars * NumDescs + 1)

StrayHandles == 1..MaxStrayHandle

StrayReg ==
    \E gatts_if \in Interfaces, app_id \in AppIds, status \in Statuses :
       /\ ~panicked
       /\ strays > 0
       /\ Deliver(RegEvt(gatts_if, app_id, status), pending)
       /\ strays' = strays - 1
       /\ UNCHANGED <<nextIf, nextHandle, refused, faults>>

StrayCreate ==
    \E gatts_if \in Interfaces, uuid \in Uuids, handle \in StrayHandles,
       status \in Statuses :
       /\ ~panicked
       /\ strays > 0
       /\ Deliver(CreateEvt(gatts_if, uuid, handle, status), pending)
       /\ strays' = strays - 1
       /\ UNCHANGED <<nextIf, nextHandle, refused, faults>>

StrayStart ==
    \E gatts_if \in Interfaces, handle \in StrayHandles, status \in Statuses :
       /\ ~panicked
       /\ strays > 0
       /\ Deliver(StartEvt(gatts_if, handle, status), pending)
       /\ strays' = strays - 1
       /\ UNCHANGED <<nextIf, nextHandle, refused, faults>>

StrayAddChar ==
    \E gatts_if \in Interfaces, uuid \in Uuids, handle \in StrayHandles,
       status \in Statuses :
       /\ ~panicked
       /\ strays > 0
       /\ Deliver(AddCharEvt(gatts_if, uuid, handle, status), pending)
       /\ strays' = strays - 1
       /\ UNCHANGED <<nextIf, nextHandle, refused, faults>>

StrayAddCharDescr ==
    \E gatts_if \in Interfaces, uuid \in Uuids, handle \in StrayHandles,
       status \in Statuses :
       /\ ~panicked
       /\ strays > 0
       /\ Deliver(AddCharDescrEvt(gatts_if, uuid, handle, status), pending)
       /\ strays' = strays - 1
       /\ UNCHANGED <<nextIf, nextHandle, refused, faults>>

Init == Start(MaxFaults, 0)

SuccessInit == Start(0, 0)

StrayInit == Start(MaxFaults, MaxStrays)

Next ==
    \/ ConfirmReg
    \/ ConfirmCreate
    \/ ConfirmStart
    \/ ConfirmAddChar
    \/ ConfirmAddCharDescr
    \/ Connect
    \/ Disconnect
    \/ Mtu
    \/ Read
    \/ Other

StrayNext ==
    \/ ConfirmReg
    \/ ConfirmCreate
    \/ ConfirmStart
    \/ ConfirmAddChar
    \/ ConfirmAddCharDescr
    \/ StrayReg
    \/ StrayCreate
    \/ StrayStart
    \/ StrayAddChar
    \/ StrayAddCharDescr

\* The stack answers every request once and may fail up to MaxFaults of them.
Spec == Init /\ [][Next]_vars

\* The stack answers every request once, with success.
SuccessSpec == SuccessInit /\ [][Next]_vars

\* The handler under any confirmation: besides the ones the requests call
\* for, up to MaxStrays confirmations that answer no request.
StraySpec == StrayInit /\ [][StrayNext]_vars

(* ============================ properties ============================== *)
EntityPaths == {w \in Paths : Len(w) >= 2}
CharPaths == {w \in Paths : Len(w) = 3}
DescrPaths == {w \in Paths : Len(w) = 4}

\* The characteristic at <<p, s, c>> (or above <<p, s, c, d>>) in ps.
CharAt(ps, w) == ps[w[1]].services[w[2]].characteristics[w[3]]

\* The handle field of the entity at w in ps: Service.handle,
\* Characteristic.attribute_handle, Descriptor.attribute_handle.
HandleIn(ps, w) ==
    IF Len(w) = 2 THEN ps[w[1]].services[w[2]].handle
    ELSE IF Len(w) = 3 THEN CharAt(ps, w).attribute_handle
    ELSE CharAt(ps, w).descriptors[w[4]].attribute_handle

\* w lies in the tree below or at v.
Under(w, v) == Len(w) >= Len(v) /\ SubSeq(w, 1, Len(v)) = v

\* Every request has been confirmed and the process is alive.
Quiet == pending = <<>> /\ ~panicked

SuccessfulRegFor(ev, p) ==
    /\ ev.kind = "REG_EVT"
    /\ ev.status = ESP_GATT_OK
    /\ ev.app_id = Identifier(p)

ConfigurationCalls(calls) ==
    SelectSeq(calls, LAMBDA c : c.op \in {"set_device_name", "config_adv_data"})

\* The characteristics a read event names, among the profiles it is handed to.
ReadChars(ps, ev) ==
    {w \in CharPaths : /\ ps[w[1]].interface = Some(ev.gatts_if)
                       /\ HandleIn(ps, w) = Some(ev.handle)}
ReadDescrs(ps, ev) ==
    {w \in DescrPaths : /\ ps[w[1]].interface = Some(ev.gatts_if)
                        /\ HandleIn(ps, w) = Some(ev.handle)}

\* The bytes a read response carries: the first len bytes of its value array.
ResponseBytes(rsp) == [i \in 1..rsp.len |-> rsp.value.fill]

(* C1: with UUIDs unique among siblings and a stack that confirms every
   request with success, the cascade ends with every Service, Characteristic
   and Descriptor holding a handle.  Stated on the state in which the stack
   has answered every request: there, no handle is None. *)
C1_AllRegistered ==
    Quiet => \A w \in EntityPaths : HandleIn(profiles, w) # None

(* C2: once the stack has failed the creation of a Service, no registration
   call is issued for any Characteristic or Descriptor below it and their
   handles stay None; and when the stack has answered everything, a sibling
   Service it failed nothing of has handles on all its characteristics and
   descriptors. *)
C2_FailedServiceIsolated ==
    \A v \in refused :
       Len(v) = 2 =>
          /\ \A w \in Paths :
                (Under(w, v) /\ w # v) =>
                   issued[w] = 0 /\ HandleIn(profiles, w) = None
          /\ \A u \in Paths :
                (/\ Len(u) = 2 /\ u[1] = v[1] /\ u # v
                 /\ Quiet
                 /\ \A x \in refused : ~Under(x, u)) =>
                   \A w \in Paths : Under(w, u) => HandleIn(profiles, w) # None

(* C3: an add-descriptor call is issued only for a characteristic whose
   attribute_handle is already assigned at the moment of the call; the call
   comes out of the successful characteristic-added confirmation that
   assigned it. *)
C3_DescriptorsAfterHandle ==
    /\ \A i \in 1..Len(lastCalls) :
          lastCalls[i].op = "add_char_descr" =>
             /\ lastCalls[i].who.parent # None
             /\ lastEvent.kind = "ADD_CHAR_EVT"
             /\ lastEvent.status = ESP_GATT_OK
             /\ lastCalls[i].who.parent = Some(lastEvent.attr_handle)
    /\ \A w \in DescrPaths :
          issued[w] > 0 => CharAt(profiles, w).attribute_handle # None

C3_Witness ==
    \E i \in 1..Len(lastCalls) : lastCalls[i].op = "add_char_descr"

(* C4: the device name, the advertising payload and the scan response
   payload are configured, in that order, exactly once: in the handling of
   the first successful profile registration and in no later one; name_set
   goes from false to true there and never back. *)
C4_NameConfiguredOnce ==
    /\ [](nameConfigs = IF name_set THEN 1 ELSE 0)
    /\ [](ConfigurationCalls(lastCalls) # <<>> =>
             /\ lastEvent.kind = "REG_EVT"
             /\ lastEvent.status = ESP_GATT_OK
             /\ Len(lastCalls) >= 3
             /\ SubSeq(lastCalls, 1, 3) = NameConfiguration
             /\ ConfigurationCalls(lastCalls) = NameConfiguration)
    /\ [][name_set => name_set']_vars
    /\ [][(/\ ~name_set
           /\ \E p \in 1..NumProfiles : SuccessfulRegFor(lastEvent', p))
             => /\ name_set'
                /\ ConfigurationCalls(lastCalls') = NameConfiguration]_vars
    /\ [][name_set => ConfigurationCalls(lastCalls') = <<>>]_vars

C4_Witness ==
    /\ nameConfigs = 1
    /\ \A p \in 1..NumProfiles : profiles[p].interface # None

(* C5: a read event whose handle is the attribute_handle of a characteristic
   of a profile it is handed to issues exactly one send-response call, with
   status success and the event's interface, connection id and transaction
   id; a read event whose handle matches no characteristic and no descriptor
   issues no call and changes nothing. *)
C5_ReadAnswered ==
    [][lastEvent'.kind = "READ_EVT" =>
         /\ ReadChars(profiles, lastEvent') # {} =>
               /\ Len(lastCalls') = 1
               /\ lastCalls'[1].op = "send_response"
               /\ lastCalls'[1].status = ESP_GATT_OK
               /\ lastCalls'[1].gatts_if = lastEvent'.gatts_if
               /\ lastCalls'[1].conn_id = lastEvent'.conn_id
               /\ lastCalls'[1].trans_id = lastEvent'.trans_id
         /\ (ReadChars(profiles, lastEvent') = {}
               /\ ReadDescrs(profiles, lastEvent') = {}) =>
               /\ lastCalls' = <<>>
               /\ UNCHANGED <<profiles, name_set, panicked, issued,
                              nameConfigs, pending>>]_vars

C5_Witness ==
    /\ lastEvent.kind = "READ_EVT"
    /\ ReadChars(profiles, lastEvent) # {}
    /\ Len(lastCalls) = 1

(* C6: the response to a read that matches a characteristic carries that
   characteristic's value: its length and bytes are those of the value
   buffer. *)
C6_ResponseCarriesValue ==
    \A i \in 1..Len(lastCalls) :
       lastCalls[i].op = "send_response" =>
          \E w \in ReadChars(profiles, lastEvent) :
             /\ lastCalls[i].rsp.len = Len(CharAt(profiles, w).value)
             /\ ResponseBytes(lastCalls[i].rsp) = CharAt(profiles, w).value

(* C7: every handle field is None after construction, and once it holds a
   value no event clears it or replaces the value. *)
C7_HandlesWriteOnce ==
    /\ \A w \in EntityPaths : HandleIn(profiles, w) = None
    /\ [][\A w \in EntityPaths :
             HandleIn(profiles, w) # None =>
                HandleIn(profiles', w) = HandleIn(profiles, w)]_vars

(* C8, as claimed: a profile's interface is None until the first successful
   registration confirmation carrying its identifier, which sets it to the
   event's interface, and no later event changes it. *)
C8_InterfaceWriteOnce ==
    /\ \A p \in 1..NumProfiles : profiles[p].interface = None
    /\ [][\A p \in 1..NumProfiles :
             profiles'[p].interface # profiles[p].interface =>
                /\ profiles[p].interface = None
                /\ SuccessfulRegFor(lastEvent', p)
                /\ profiles'[p].interface = Some(lastEvent'.gatts_if)]_vars

(* C8, amended: a profile's interface is None after construction; every
   successful registration confirmation carrying its identifier sets it to
   that event's interface, the first and any later one, and no other event
   changes it. *)
C8_InterfaceSetByRegistration ==
    /\ \A p \in 1..NumProfiles : profiles[p].interface = None
    /\ [][\A p \in 1..NumProfiles :
             /\ SuccessfulRegFor(lastEvent', p) =>
                   profiles'[p].interface = Some(lastEvent'.gatts_if)
             /\ profiles'[p].interface # profiles[p].interface =>
                   SuccessfulRegFor(lastEvent', p)]_vars

C8_Witness ==
    \E p \in 1..NumProfiles :
       /\ SuccessfulRegFor(lastEvent, p)
       /\ strays < MaxStrays
       /\ \A i \in 1..Len(pending) :
             pending[i].call.op = "app_register" => pending[i].call.who.path # <<p>>
       /\ issued[<<p, 1>>] = 2
       /\ profiles[p].interface = Some(lastEvent.gatts_if)

(* C9: handling a disconnect event issues exactly one start-advertising
   call, with the stored advertising parameters, hands the event to no
   profile and leaves every interface, every handle and name_set as they
   were. *)
C9_DisconnectReadvertises ==
    [][lastEvent'.kind = "DISCONNECT_EVT" =>
         /\ lastCalls' = <<StartAdvertising>>
         /\ lastHandled' = <<>>
         /\ UNCHANGED <<profiles, name_set, panicked, issued, nameConfigs,
                        pending>>]_vars

C9_Witness ==
    /\ lastEvent.kind = "DISCONNECT_EVT"
    /\ \E p \in 1..NumProfiles : profiles[p].interface = Some(lastEvent.gatts_if)
    /\ \E w \in CharPaths : HandleIn(profiles, w) # None

(* C10: with a stack that confirms every request with success, once it has
   answered everything each profile, service, characteristic and descriptor
   has been registered exactly once, 1 + N + N*M + N*M*K calls per profile. *)
C10_EveryEntityRegisteredOnce ==
    Quiet => \A w \in Paths : issued[w] = 1

\* The add-descriptor calls among calls that were issued for descriptors of
\* the characteristic at w, in the order issued.
DescriptorCalls(calls, w) ==
    SelectSeq(calls, LAMBDA c : c.op = "add_char_descr" /\ Under(c.who.path, w))

\* calls registers, in declaration order, every descriptor of the
\* characteristic at w, each under the handle Parent(ch).
RegistersDescriptorsOf(ps, w, calls, Parent(_)) ==
    /\ Len(calls) = Len(CharAt(ps, w).descriptors)
    /\ \A d \in 1..Len(calls) :
          /\ calls[d].who.path = w \o <<d>>
          /\ calls[d].uuid = CharAt(ps, w).descriptors[d].uuid
          /\ calls[d].handle = Parent(CharAt(ps, w))

(* C11, as claimed: the add-descriptor calls a characteristic-added
   confirmation issues for a characteristic are one per descriptor of the
   characteristic, in declaration order, each with the characteristic's
   attribute_handle as the handle argument. *)
C11_DescriptorsUnderAttributeHandle ==
    \A w \in CharPaths :
       DescriptorCalls(lastCalls, w) # <<>> =>
          /\ CharAt(profiles, w).attribute_handle = Some(lastEvent.attr_handle)
          /\ RegistersDescriptorsOf(profiles, w, DescriptorCalls(lastCalls, w),
                 LAMBDA ch : Unwrap(ch.attribute_handle))

(* C11, amended: the add-descriptor calls a characteristic-added
   confirmation issues for a characteristic are one per descriptor of the
   characteristic, in declaration order, each with the characteristic's
   service_handle (the handle of the service it was registered into) as the
   handle argument, not its attribute_handle. *)
C11_DescriptorsUnderServiceHandle ==
    \A w \in CharPaths :
       DescriptorCalls(lastCalls, w) # <<>> =>
          /\ CharAt(profiles, w).attribute_handle = Some(lastEvent.attr_handle)
          /\ CharAt(profiles, w).service_handle # None
          /\ RegistersDescriptorsOf(profiles, w, DescriptorCalls(lastCalls, w),
                 LAMBDA ch : Unwrap(ch.service_handle))

C11_Witness ==
    \E w \in CharPaths :
       /\ Len(DescriptorCalls(lastCalls, w)) = NumDescs
       /\ NumDescs > 1
       /\ CharAt(profiles, w).service_handle # CharAt(profiles, w).attribute_handle

(* C12: registration goes level by level.  An add-service call is issued
   only for a profile whose interface is set, and carries it; an
   add-characteristic call is issued only for a characteristic whose service
   has its handle, carries that handle, and the characteristic has stored it
   as its service_handle. *)
C12_LevelByLevel ==
    /\ \A i \in 1..Len(lastCalls) :
          /\ lastCalls[i].op = "add_service" =>
                /\ lastCalls[i].who.parent # None
                /\ lastCalls[i].gatts_if = Unwrap(lastCalls[i].who.parent)
                /\ profiles[lastCalls[i].who.path[1]].interface
                      = lastCalls[i].who.parent
          /\ lastCalls[i].op = "add_char" =>
                /\ lastCalls[i].who.parent # None
                /\ lastCalls[i].handle = Unwrap(lastCalls[i].who.parent)
                /\ HandleIn(profiles, SubSeq(lastCalls[i].who.path, 1, 2))
                      = lastCalls[i].who.parent
                /\ CharAt(profiles, lastCalls[i].who.path).service_handle
                      = Some(lastCalls[i].handle)
    /\ \A w \in EntityPaths :
          /\ (Len(w) = 2 /\ issued[w] > 0) => profiles[w[1]].interface # None
          /\ (Len(w) = 3 /\ issued[w] > 0) =>
                /\ HandleIn(profiles, SubSeq(w, 1, 2)) # None
                /\ CharAt(profiles, w).service_handle # None

C12_Witness ==
    /\ lastEvent.kind = "CREATE_EVT"
    /\ \E i \in 1..Len(lastCalls) : lastCalls[i].op = "add_char"
    /\ \E w \in EntityPaths : Len(w) = 2 /\ issued[w] > 0 /\ HandleIn(profiles, w) = None

\* calls holds a start-advertising call.
Advertises(calls) == \E i \in 1..Len(calls) : calls[i].op = "start_advertising"

\* The stack has handed out an interface: it has delivered a successful
\* profile registration confirmation.
InterfaceHandedOut == nextIf > 1

CallsUnder(calls, v) ==
    SelectSeq(calls, LAMBDA c : c.op \in ConfirmedOps /\ Under(c.who.path, v))

(* C14: the handling of a successful service-created confirmation sets the
   service's handle to the event's, then issues start-service for that
   handle, then one add-characteristic call per characteristic of the
   service in declaration order; no add-characteristic call is issued that
   does not follow the start-service call of its service in that handling. *)
C14_StartThenPopulate ==
    /\ \A v \in EntityPaths :
          (/\ Len(v) = 2
           /\ lastEvent.kind = "CREATE_EVT"
           /\ lastEvent.status = ESP_GATT_OK
           /\ \E i \in 1..Len(lastHandled) : lastHandled[i] = v[1]
           /\ FindFirst(profiles[v[1]].services,
                         LAMBDA service : service.uuid = lastEvent.uuid) = v[2]) =>
              /\ HandleIn(profiles, v) = Some(lastEvent.service_handle)
              /\ Len(CallsUnder(lastCalls, v)) = 1 + NumChars
              /\ CallsUnder(lastCalls, v)[1].op = "start_service"
              /\ CallsUnder(lastCalls, v)[1].handle = lastEvent.service_handle
              /\ \A c \in 1..NumChars :
                    /\ CallsUnder(lastCalls, v)[1 + c].op = "add_char"
                    /\ CallsUnder(lastCalls, v)[1 + c].who.path = v \o <<c>>
                    /\ CallsUnder(lastCalls, v)[1 + c].handle
                          = lastEvent.service_handle
    /\ \A i \in 1..Len(lastCalls) :
          lastCalls[i].op = "add_char" =>
             \E j \in 1..(i - 1) :
                /\ lastCalls[j].op = "start_service"
                /\ lastCalls[j].who.path = SubSeq(lastCalls[i].who.path, 1, 2)

C14_Witness ==
    /\ lastEvent.kind = "CREATE_EVT"
    /\ lastEvent.status = ESP_GATT_OK
    /\ Len(lastCalls) = 1 + NumChars
    /\ lastCalls[1].op = "start_service"
    /\ lastCalls[2].op = "add_char"

\* The profiles of ps an event reported on gatts_if is handed to.
Receivers(ps, gatts_if) ==
    {p \in 1..NumProfiles : ps[p].interface = Some(gatts_if)}

\* The profile at p has an entity of the kind ev confirms with ev's UUID.
KnowsUuid(ps, p, ev) ==
    CASE ev.kind = "CREATE_EVT" ->
            \E w \in EntityPaths :
               Len(w) = 2 /\ w[1] = p /\ ps[p].services[w[2]].uuid = ev.uuid
      [] ev.kind = "ADD_CHAR_EVT" ->
            \E w \in CharPaths : w[1] = p /\ CharAt(ps, w).uuid = ev.uuid
      [] ev.kind = "ADD_CHAR_DESCR_EVT" ->
            \E w \in DescrPaths :
               w[1] = p /\ CharAt(ps, w).descriptors[w[4]].uuid = ev.uuid
      [] OTHER -> FALSE

(* C15: a characteristic-added or descriptor-added confirmation with a
   failure status leaves the matched entity's attribute_handle, and every
   other field of every tree, as it was, and issues no call, so no
   add-descriptor call; the process goes on. *)
C15_FailedAttributeLeftAlone ==
    [][(/\ lastEvent'.kind \in {"ADD_CHAR_EVT", "ADD_CHAR_DESCR_EVT"}
        /\ lastEvent'.status # ESP_GATT_OK) =>
          /\ profiles' = profiles
          /\ lastCalls' = <<>>
          /\ UNCHANGED <<name_set, issued, nameConfigs>>
          /\ (\A p \in Receivers(profiles, lastEvent'.gatts_if) :
                 KnowsUuid(profiles, p, lastEvent')) => ~panicked']_vars

C15_Witness ==
    /\ lastEvent.kind = "ADD_CHAR_EVT"
    /\ lastEvent.status # ESP_GATT_OK
    /\ lastHandled # <<>>
    /\ ~panicked
    /\ \E w \in CharPaths :
          /\ w[1] = lastHandled[1]
          /\ CharAt(profiles, w).uuid = lastEvent.uuid
          /\ CharAt(profiles, w).attribute_handle = None
          /\ CharAt(profiles, w).service_handle # None

(* C16: handling a profile registration confirmation whose application
   identifier is that of no profile aborts the process, whatever status the
   event carries; when a profile has the identifier and the status is
   success, that profile's interface becomes the event's. *)
C16_UnknownRegistrationFatal ==
    [][lastEvent'.kind = "REG_EVT" =>
         /\ (\A p \in 1..NumProfiles :
                profiles[p].identifier # lastEvent'.app_id) => panicked'
         /\ \A p \in 1..NumProfiles :
               SuccessfulRegFor(lastEvent', p) =>
                  profiles'[p].interface = Some(lastEvent'.gatts_if)]_vars

\* The lookup the profile at p makes for ev finds nothing.
LookupMisses(ps, p, ev) ==
    IF ev.kind = "START_EVT"
    THEN \A s \in 1..NumServices :
            ps[p].services[s].handle # Some(ev.service_handle)
    ELSE ~KnowsUuid(ps, p, ev)

(* C17: a service-created, characteristic-added or descriptor-added event
   whose UUID names no entity of a profile it is handed to, and a
   service-started event whose handle is that of no service of such a
   profile, aborts the process: no handle is assigned, no call is issued,
   and nothing is handled after it. *)
C17_LookupMissFatal ==
    /\ [][(/\ lastEvent'.kind \in {"CREATE_EVT", "START_EVT", "ADD_CHAR_EVT",
                                     "ADD_CHAR_DESCR_EVT"}
            /\ \E p \in Receivers(profiles, lastEvent'.gatts_if) :
                  LookupMisses(profiles, p, lastEvent')) =>
              /\ panicked'
              /\ profiles' = profiles
              /\ lastCalls' = <<>>
              /\ UNCHANGED issued]_vars
    /\ [][~panicked]_vars

C17_Witness ==
    /\ panicked
    /\ lastEvent.kind = "ADD_CHAR_EVT"
    /\ lastHandled # <<>>
    /\ LookupMisses(profiles, lastHandled[1], lastEvent)
    /\ \E w \in CharPaths : HandleIn(profiles, w) # None

ProfileScoped ==
    {"CREATE_EVT", "START_EVT", "ADD_CHAR_EVT", "ADD_CHAR_DESCR_EVT", "READ_EVT"}

(* C18: a profile-scoped event reported on an interface is handed only to
   the profiles whose interface is that one; a profile whose interface is
   None or another one keeps every field of its tree, and no call is issued
   by any of its entities. *)
C18_DispatchScopedByInterface ==
    [][lastEvent'.kind \in ProfileScoped =>
         /\ \A i \in 1..Len(lastHandled') :
               lastHandled'[i] \in Receivers(profiles, lastEvent'.gatts_if)
         /\ \A p \in 1..NumProfiles :
               p \notin Receivers(profiles, lastEvent'.gatts_if) =>
                  /\ profiles'[p] = profiles[p]
                  /\ \A i \in 1..Len(lastCalls') :
                        /\ "who" \in DOMAIN lastCalls'[i] =>
                              lastCalls'[i].who.path[1] # p
                        /\ "gatts_if" \in DOMAIN lastCalls'[i] =>
                              profiles[p].interface
                                 # Some(lastCalls'[i].gatts_if)]_vars

C18_Witness ==
    /\ lastEvent.kind = "ADD_CHAR_EVT"
    /\ lastEvent.status = ESP_GATT_OK
    /\ lastCalls # <<>>
    /\ \E p, q \in 1..NumProfiles :
          /\ lastHandled = <<p>>
          /\ profiles[q].interface # None
          /\ profiles[q].interface # Some(lastEvent.gatts_if)
          /\ \E w \in CharPaths : w[1] = q /\ HandleIn(profiles, w) # None

(* C19: a read event whose handle is the attribute_handle of a descriptor,
   and of no characteristic, of a profile it is handed to issues no
   send-response call, no other call, and changes nothing. *)
C19_DescriptorReadUnanswered ==
    [][(/\ lastEvent'.kind = "READ_EVT"
        /\ ReadDescrs(profiles, lastEvent') # {}
        /\ ReadChars(profiles, lastEvent') = {}) =>
          /\ lastCalls' = <<>>
          /\ UNCHANGED <<profiles, name_set, panicked, issued, nameConfigs,
                         pending>>]_vars

C19_Witness ==
    /\ lastEvent.kind = "READ_EVT"
    /\ lastHandled # <<>>
    /\ ReadDescrs(profiles, lastEvent) # {}
    /\ ReadChars(profiles, lastEvent) = {}
    /\ lastCalls = <<>>

(* C20: name_set is true only if some profile has its interface; and a
   profile registration confirmation with a failure status sets no
   interface, leaves name_set as it was and issues no device-name or
   advertising-payload call. *)
C20_NameSetImpliesRegistered ==
    /\ [](name_set => \E p \in 1..NumProfiles : profiles[p].interface # None)
    /\ [][(lastEvent'.kind = "REG_EVT" /\ lastEvent'.status # ESP_GATT_OK) =>
             /\ \A p \in 1..NumProfiles :
                   profiles'[p].interface = profiles[p].interface
             /\ name_set' = name_set
             /\ ConfigurationCalls(lastCalls') = <<>>
             /\ nameConfigs' = nameConfigs]_vars

C20_Witness ==
    /\ lastEvent.kind = "REG_EVT"
    /\ lastEvent.status # ESP_GATT_OK
    /\ ~name_set
    /\ \E p \in 1..NumProfiles :
          /\ profiles[p].identifier = lastEvent.app_id
          /\ profiles[p].interface = None

====
